---- MODULE Spec2Model ----
(***************************************************************************)
(* Model of market/api_client.go: the process-wide proxy setting, client   *)
(* construction, and the three blocking REST operations GetExchangeInfo,   *)
(* GetKlines and GetCurrentPrice with their JSON decoding.                 *)
(*                                                                         *)
(* Strings are sequences of one-character strings.  float64 values are     *)
(* decimal records [k, m, e]: k = "fin" means m * 10^e (m carries the      *)
(* sign and has no trailing zero), k = "inf" means +Inf/-Inf by the sign   *)
(* of m.  Inputs have few significant digits, so distinct decimals are     *)
(* distinct float64 values.                                                *)
(***************************************************************************)
EXTENDS Integers, Sequences, FiniteSets, TLC

VARIABLES
    globalProxyURL,   \* the package variable globalProxyURL
    clients,          \* every APIClient constructed so far, in order
    logged,           \* the line most recently written to the log
    endpoint,         \* the route and the body the exchange serves on it
    pc,               \* position of the running call
    status,           \* HTTP status code of the response obtained
    bodyRead,         \* how far resp.Body has been read
    deferred,         \* deferred resp.Body.Close() calls not yet run
    closes,           \* number of times resp.Body was closed
    klineResponses,   \* the decoded []KlineResponse
    idx,              \* position of the range loop over klineResponses
    klines,           \* the []Kline under construction
    ticker,           \* the decoded PriceTicker
    ret,              \* what the call returned (or that it panicked)
    previous          \* what the caller got from the call before this one

vars == <<globalProxyURL, clients, logged, endpoint, pc, status, bodyRead, deferred,
          closes, klineResponses, idx, klines, ticker, ret, previous>>

callVars == <<endpoint, pc, status, bodyRead, deferred, closes,
              klineResponses, idx, klines, ticker, ret, previous>>

proxyVars == <<globalProxyURL, clients, logged>>

----------------------------------------------------------------------------
(* Bounds *)

MaxBatch == 3      \* wire arrays in one klines body
MaxBad == 1        \* elements of a body that vary from the plain ones
MaxClients == 2    \* clients constructed

----------------------------------------------------------------------------
(* Strings *)

Digits == {"0", "1", "2", "3", "4", "5", "6", "7", "8", "9"}

Letters == {"a", "b", "c", "e", "h", "p", "q", "s", "t", "x", "z"}

DigitVal(c) ==
    CASE c = "0" -> 0 [] c = "1" -> 1 [] c = "2" -> 2 [] c = "3" -> 3
      [] c = "4" -> 4 [] c = "5" -> 5 [] c = "6" -> 6 [] c = "7" -> 7
      [] c = "8" -> 8 [] c = "9" -> 9

Drop(s, n) == IF n >= Len(s) THEN <<>> ELSE SubSeq(s, n + 1, Len(s))

Take(s, n) == IF n <= 0 THEN <<>> ELSE SubSeq(s, 1, IF n > Len(s) THEN Len(s) ELSE n)

HasPrefix(s, p) == Len(s) >= Len(p) /\ Take(s, Len(p)) = p

\* strings.Index for a one-character needle: 0-based position or -1
RECURSIVE IndexFrom(_, _, _)
IndexFrom(s, c, i) ==
    IF i > Len(s) THEN -1
    ELSE IF s[i] = c THEN i - 1
    ELSE IndexFrom(s, c, i + 1)

Index(s, c) == IndexFrom(s, c, 1)

RECURSIVE LastIndexFrom(_, _, _)
LastIndexFrom(s, c, i) ==
    IF i < 1 THEN -1
    ELSE IF s[i] = c THEN i - 1
    ELSE LastIndexFrom(s, c, i - 1)

LastIndex(s, c) == LastIndexFrom(s, c, Len(s))

Contains(s, c) == Index(s, c) >= 0

----------------------------------------------------------------------------
(* float64 and strconv.ParseFloat *)

RECURSIVE Pow10(_)
Pow10(n) == IF n <= 0 THEN 1 ELSE 10 * Pow10(n - 1)

Abs(n) == IF n < 0 THEN -n ELSE n

RECURSIVE NumDigits(_)
NumDigits(n) == IF Abs(n) < 10 THEN 1 ELSE 1 + NumDigits(Abs(n) \div 10)

Zero == [k |-> "fin", m |-> 0, e |-> 0]

Inf(sign) == [k |-> "inf", m |-> sign, e |-> 0]

RECURSIVE Fin(_, _)
Fin(m, e) ==
    IF m = 0 THEN Zero
    ELSE IF m % 10 = 0 THEN Fin(m \div 10, e + 1)
    ELSE [k |-> "fin", m |-> m, e |-> e]

\* largest decimal exponent of a finite float64 (1.79e308)
MaxExp10 == 308

\* smallest decimal exponent of a non-zero float64 (4.9e-324)
MinExp10 == -324

\* the exponent accumulator of readFloat saturates here
ExpCap == 10000

\* the prefix of s made of decimal digits, as [n, len]
RECURSIVE ReadDigits(_, _, _)
ReadDigits(s, i, acc) ==
    IF i <= Len(s) /\ s[i] \in Digits
    THEN ReadDigits(s, i + 1,
                    [n |-> IF acc.n < ExpCap
                           THEN acc.n * 10 + DigitVal(s[i]) ELSE acc.n,
                     len |-> acc.len + 1])
    ELSE acc

\* the mantissa scan of readFloat: digits with at most one '.', as
\* [m, nd (digits seen), frac (digits after the dot), next (1-based)]
RECURSIVE ReadMantissa(_, _, _, _)
ReadMantissa(s, i, sawdot, acc) ==
    IF i > Len(s) THEN [acc EXCEPT !.next = i]
    ELSE IF s[i] = "." /\ ~sawdot THEN ReadMantissa(s, i + 1, TRUE, acc)
    ELSE IF s[i] \in Digits
         THEN ReadMantissa(s, i + 1, sawdot,
                  [acc EXCEPT !.m = acc.m * 10 + DigitVal(s[i]),
                              !.nd = acc.nd + 1,
                              !.frac = acc.frac + (IF sawdot THEN 1 ELSE 0)])
    ELSE [acc EXCEPT !.next = i]

SyntaxError == [f |-> Zero, err |-> "syntax"]

\* strconv.ParseFloat(s, 64) on the alphabet Digits, Letters, "+", "-", ".":
\* [f, err] with err one of "", "syntax", "range"
ParseFloat(s) ==
    IF Len(s) = 0 THEN SyntaxError
    ELSE
    LET signed == s[1] \in {"+", "-"}
        sign == IF s[1] = "-" THEN -1 ELSE 1
        mant == ReadMantissa(s, IF signed THEN 2 ELSE 1, FALSE,
                             [m |-> 0, nd |-> 0, frac |-> 0, next |-> 0])
        i == mant.next
    IN  IF mant.nd = 0 THEN SyntaxError
        ELSE
        LET hasExp == i <= Len(s) /\ s[i] = "e"
            j == i + 1
            esigned == hasExp /\ j <= Len(s) /\ s[j] \in {"+", "-"}
            esign == IF esigned /\ s[j] = "-" THEN -1 ELSE 1
            k == IF esigned THEN j + 1 ELSE j
            ex == ReadDigits(s, k, [n |-> 0, len |-> 0])
            end == IF hasExp THEN k + ex.len ELSE i
            dp == (IF hasExp THEN esign * ex.n ELSE 0) - mant.frac
            top == NumDigits(mant.m) + dp - 1
        IN  IF hasExp /\ ex.len = 0 THEN SyntaxError
            ELSE IF end /= Len(s) + 1 THEN SyntaxError
            ELSE IF mant.m = 0 THEN [f |-> Zero, err |-> ""]
            ELSE IF top > MaxExp10 THEN [f |-> Inf(sign), err |-> "range"]
            ELSE IF top < MinExp10 THEN [f |-> Zero, err |-> ""]
            ELSE [f |-> Fin(sign * mant.m, dp), err |-> ""]

\* the conversions int64(f) and int(f) of a finite float64: truncation
\* toward zero
ToInt(f) ==
    IF f.e >= 0 THEN f.m * Pow10(f.e)
    ELSE IF f.m >= 0 THEN f.m \div Pow10(-f.e)
    ELSE -((-f.m) \div Pow10(-f.e))

----------------------------------------------------------------------------
(* net/url.Parse, on strings over Letters, Digits and ":", "/", ".", "%",  *)
(* " " (no "?", "#", "@", "[", "*" and no control characters occur)        *)

HexDigits == Digits \cup {"a", "b", "c", "e"}

EmptyURL == [Scheme |-> <<>>, Opaque |-> <<>>, Host |-> <<>>, Path |-> <<>>]

\* getScheme: [scheme, rest, err]
RECURSIVE getSchemeFrom(_, _)
getSchemeFrom(rawURL, i) ==
    IF i > Len(rawURL) THEN [scheme |-> <<>>, rest |-> rawURL, err |-> ""]
    ELSE IF rawURL[i] \in Letters THEN getSchemeFrom(rawURL, i + 1)
    ELSE IF rawURL[i] \in Digits \cup {"+", "-", "."}
         THEN IF i = 1
              THEN [scheme |-> <<>>, rest |-> rawURL, err |-> ""]
              ELSE getSchemeFrom(rawURL, i + 1)
    ELSE IF rawURL[i] = ":"
         THEN IF i = 1
              THEN [scheme |-> <<>>, rest |-> <<>>,
                    err |-> "missing protocol scheme"]
              ELSE [scheme |-> Take(rawURL, i - 1), rest |-> Drop(rawURL, i),
                    err |-> ""]
    ELSE [scheme |-> <<>>, rest |-> rawURL, err |-> ""]

getScheme(rawURL) == getSchemeFrom(rawURL, 1)

\* validOptionalPort: "" or ":" followed by digits only
validOptionalPort(port) ==
    \/ port = <<>>
    \/ /\ port[1] = ":"
       /\ \A i \in 2..Len(port) : port[i] \in Digits

\* unescape(s, mode): [s, err]; a decoded byte is named by its two hex digits
RECURSIVE unescapeFrom(_, _, _, _)
unescapeFrom(s, i, hostMode, acc) ==
    IF i > Len(s) THEN [s |-> acc, err |-> ""]
    ELSE IF s[i] = "%"
         THEN IF i + 2 > Len(s) \/ s[i + 1] \notin HexDigits
                                \/ s[i + 2] \notin HexDigits
              THEN [s |-> <<>>, err |-> "invalid URL escape"]
              ELSE IF hostMode /\ s[i + 1] \in {"0", "1", "2", "3", "4", "5", "6", "7"}
                               /\ <<s[i + 1], s[i + 2]>> /= <<"2", "5">>
              THEN [s |-> <<>>, err |-> "invalid URL escape"]
              ELSE unescapeFrom(s, i + 3, hostMode,
                                Append(acc, s[i + 1] \o s[i + 2]))
    ELSE IF hostMode /\ s[i] = " "
         THEN [s |-> <<>>, err |-> "invalid character in host name"]
    ELSE unescapeFrom(s, i + 1, hostMode, Append(acc, s[i]))

unescape(s, hostMode) == unescapeFrom(s, 1, hostMode, <<>>)

\* parseHost: [s, err]
parseHost(host) ==
    LET i == LastIndex(host, ":")
    IN  IF i /= -1 /\ ~validOptionalPort(Drop(host, i))
        THEN [s |-> <<>>, err |-> "invalid port after host"]
        ELSE unescape(host, TRUE)

\* url.Parse: [url, err]
Parse(rawURL) ==
    LET sch == getScheme(rawURL)
        rest == sch.rest
        base == [EmptyURL EXCEPT !.Scheme = sch.scheme]
        hasAuthority ==
            /\ HasPrefix(rest, <<"/", "/">>)
            /\ sch.scheme /= <<>> \/ ~HasPrefix(rest, <<"/", "/", "/">>)
        afterSlashes == Drop(rest, 2)
        cut == Index(afterSlashes, "/")
        authority == IF cut >= 0 THEN Take(afterSlashes, cut) ELSE afterSlashes
        pathPart == IF ~hasAuthority THEN rest
                    ELSE IF cut >= 0 THEN Drop(afterSlashes, cut) ELSE <<>>
        host == IF hasAuthority THEN parseHost(authority)
                ELSE [s |-> <<>>, err |-> ""]
        path == unescape(pathPart, FALSE)
        slash == Index(rest, "/")
        segment == IF slash >= 0 THEN Take(rest, slash) ELSE rest
    IN  IF sch.err /= "" THEN [url |-> EmptyURL, err |-> sch.err]
        ELSE IF ~HasPrefix(rest, <<"/">>) /\ sch.scheme /= <<>>
             THEN [url |-> [base EXCEPT !.Opaque = rest], err |-> ""]
        ELSE IF ~HasPrefix(rest, <<"/">>) /\ Contains(segment, ":")
             THEN [url |-> EmptyURL,
                   err |-> "first path segment in URL cannot contain colon"]
        ELSE IF host.err /= "" THEN [url |-> EmptyURL, err |-> host.err]
        ELSE IF path.err /= "" THEN [url |-> EmptyURL, err |-> path.err]
        ELSE [url |-> [base EXCEPT !.Host = host.s, !.Path = path.s],
              err |-> ""]

----------------------------------------------------------------------------
(* The proxy setting and client construction *)

\* proxy strings a caller passes to SetProxy
ProxyInputs ==
    { <<>>,
      <<"h", "t", "t", "p", ":", "/", "/", "p", ":", "8">>,     \* http://p:8
      <<"h", "t", "t", "p", ":", "/", "/", "q", ":", "9">>,     \* http://q:9
      <<":", "/", "/", "p">>,                                   \* ://p
      <<"h", "t", "t", "p", ":", "/", "/", "p", ":", "x">>,     \* http://p:x
      <<"h", "t", "t", "p", ":", "/", "/", "p", " ", "q">>,     \* http://p q
      <<"1", ":", "8">>,                                        \* 1:8
      <<"/", "%", "z">>,                                        \* /%z
      <<"p", ":", "8">>,                                        \* p:8
      <<"p">> }                                                 \* p

\* transport.Proxy left nil
NoProxy == [set |-> FALSE, url |-> EmptyURL]

\* transport.Proxy = http.ProxyURL(u)
ProxyURL(u) == [set |-> TRUE, url |-> u]

\* the request timeout, in seconds
Timeout == 30

\* variant: the parse error is not looked at
NewTransportIgnoringErr(proxyURL) ==
    [InsecureSkipVerify |-> FALSE,
     Proxy |-> IF proxyURL /= <<>> THEN ProxyURL(Parse(proxyURL).url)
               ELSE NoProxy]

\* the transport NewAPIClient builds while the setting is proxyURL
NewTransport(proxyURL) ==
    LET parsed == Parse(proxyURL)
    IN  [InsecureSkipVerify |-> FALSE,
         Proxy |-> IF proxyURL /= <<>> /\ parsed.err = ""
                   THEN ProxyURL(parsed.url) ELSE NoProxy]

\* log lines: nothing yet, SetProxy's, and the two of NewAPIClient
NoLog == [line |-> "none", arg |-> <<>>]

\* variant: every transport consults the setting instead of its own copy
SetProxyRetargeting(proxyURL) ==
    /\ globalProxyURL' = proxyURL
    /\ logged' = [line |-> "proxy set", arg |-> proxyURL]
    /\ clients' = [i \in 1..Len(clients) |->
                     [clients[i] EXCEPT !.Transport =
                         [InsecureSkipVerify |-> FALSE,
                          Proxy |-> IF proxyURL /= <<>> /\ Parse(proxyURL).err = ""
                                    THEN ProxyURL(Parse(proxyURL).url)
                                    ELSE NoProxy]]]
    /\ UNCHANGED callVars

SetProxy(proxyURL) ==
    /\ globalProxyURL' = proxyURL
    /\ logged' = [line |-> "proxy set", arg |-> proxyURL]
    /\ UNCHANGED <<clients, callVars>>

NewAPIClient ==
    /\ Len(clients) < MaxClients
    /\ clients' = Append(clients,
                         [Timeout |-> Timeout,
                          Transport |-> NewTransport(globalProxyURL)])
    /\ logged' = IF globalProxyURL = <<>> THEN logged
                 ELSE IF Parse(globalProxyURL).err = ""
                 THEN [line |-> "client uses proxy", arg |-> globalProxyURL]
                 ELSE [line |-> "proxy URL parse failed", arg |-> globalProxyURL]
    /\ UNCHANGED <<globalProxyURL, callVars>>

----------------------------------------------------------------------------
(* JSON values as encoding/json decodes them into interface{}              *)

JNum(f) == [t |-> "num", f |-> f, s |-> <<>>]      \* float64

JStr(s) == [t |-> "str", f |-> Zero, s |-> s]      \* string

JNull == [t |-> "null", f |-> Zero, s |-> <<>>]    \* nil

JAbsent == [t |-> "absent", f |-> Zero, s |-> <<>>] \* key not in the object

\* an element of the outer array of a klines body
Arr(a) == [t |-> "arr", a |-> a]

NullElem == [t |-> "null", a |-> <<>>]

NumElem == [t |-> "num", a |-> <<>>]

\* a response body: t = "bad" is text that is not JSON
BadBody == [t |-> "bad", items |-> <<>>, price |-> JAbsent]

NullBody == [t |-> "null", items |-> <<>>, price |-> JAbsent]

ArrBody(items) == [t |-> "arr", items |-> items, price |-> JAbsent]

ObjBody(price) == [t |-> "obj", items |-> <<>>, price |-> price]

----------------------------------------------------------------------------
(* parseKline *)

\* the wire contract requires at least this many elements
MinKlineLen == 11

NumberIdx == {0, 6, 8}

StringIdx == {1, 2, 3, 4, 5, 7, 9, 10}

ZeroKline ==
    [OpenTime |-> 0, Open |-> Zero, High |-> Zero, Low |-> Zero,
     Close |-> Zero, Volume |-> Zero, CloseTime |-> 0, QuoteVolume |-> Zero,
     Trades |-> 0, TakerBuyBaseVolume |-> Zero, TakerBuyQuoteVolume |-> Zero]

\* kr[i].(float64) and kr[i].(string) panic unless the dynamic type matches
AssertionPanics(kr) ==
    \/ \E i \in NumberIdx : kr[i + 1].t /= "num"
    \/ \E i \in StringIdx : kr[i + 1].t /= "str"

\* variant: a field that fails to parse fails the record
parseKlineStrict(kr) ==
    IF Len(kr) < MinKlineLen
    THEN [kline |-> ZeroKline, err |-> "invalid kline data", panic |-> FALSE]
    ELSE IF AssertionPanics(kr)
    THEN [kline |-> ZeroKline, err |-> "", panic |-> TRUE]
    ELSE IF \E i \in StringIdx : ParseFloat(kr[i + 1].s).err /= ""
    THEN [kline |-> ZeroKline, err |-> "invalid kline data", panic |-> FALSE]
    ELSE [kline |->
            [OpenTime |-> ToInt(kr[1].f),
             Open |-> ParseFloat(kr[2].s).f,
             High |-> ParseFloat(kr[3].s).f,
             Low |-> ParseFloat(kr[4].s).f,
             Close |-> ParseFloat(kr[5].s).f,
             Volume |-> ParseFloat(kr[6].s).f,
             CloseTime |-> ToInt(kr[7].f),
             QuoteVolume |-> ParseFloat(kr[8].s).f,
             Trades |-> ToInt(kr[9].f),
             TakerBuyBaseVolume |-> ParseFloat(kr[10].s).f,
             TakerBuyQuoteVolume |-> ParseFloat(kr[11].s).f],
          err |-> "", panic |-> FALSE]

\* variant: High and Low read from each other's index, and the last field
\* read from the last element instead of index 10
parseKlineMisplaced(kr) ==
    IF Len(kr) < MinKlineLen
    THEN [kline |-> ZeroKline, err |-> "invalid kline data", panic |-> FALSE]
    ELSE IF AssertionPanics(kr)
    THEN [kline |-> ZeroKline, err |-> "", panic |-> TRUE]
    ELSE [kline |->
            [OpenTime |-> ToInt(kr[1].f),
             Open |-> ParseFloat(kr[2].s).f,
             High |-> ParseFloat(kr[4].s).f,
             Low |-> ParseFloat(kr[3].s).f,
             Close |-> ParseFloat(kr[5].s).f,
             Volume |-> ParseFloat(kr[6].s).f,
             CloseTime |-> ToInt(kr[7].f),
             QuoteVolume |-> ParseFloat(kr[8].s).f,
             Trades |-> ToInt(kr[9].f),
             TakerBuyBaseVolume |-> ParseFloat(kr[10].s).f,
             TakerBuyQuoteVolume |-> ParseFloat(kr[Len(kr)].s).f],
          err |-> "", panic |-> FALSE]

\* [kline, err, panic]
parseKline(kr) ==
    IF Len(kr) < MinKlineLen
    THEN [kline |-> ZeroKline, err |-> "invalid kline data", panic |-> FALSE]
    ELSE IF AssertionPanics(kr)
    THEN [kline |-> ZeroKline, err |-> "", panic |-> TRUE]
    ELSE [kline |->
            [OpenTime |-> ToInt(kr[1].f),
             Open |-> ParseFloat(kr[2].s).f,
             High |-> ParseFloat(kr[3].s).f,
             Low |-> ParseFloat(kr[4].s).f,
             Close |-> ParseFloat(kr[5].s).f,
             Volume |-> ParseFloat(kr[6].s).f,
             CloseTime |-> ToInt(kr[7].f),
             QuoteVolume |-> ParseFloat(kr[8].s).f,
             Trades |-> ToInt(kr[9].f),
             TakerBuyBaseVolume |-> ParseFloat(kr[10].s).f,
             TakerBuyQuoteVolume |-> ParseFloat(kr[11].s).f],
          err |-> "", panic |-> FALSE]

----------------------------------------------------------------------------
(* json.Unmarshal into the three targets: [v, err]                         *)

\* into []KlineResponse: null leaves the slice nil, a null element is a nil
\* KlineResponse, an element that is not an array is a type error
UnmarshalKlines(body) ==
    IF body.t = "bad" THEN [v |-> <<>>, err |-> "json syntax"]
    ELSE IF body.t = "null" THEN [v |-> <<>>, err |-> ""]
    ELSE IF body.t /= "arr" THEN [v |-> <<>>, err |-> "json type"]
    ELSE IF \E i \in 1..Len(body.items) : body.items[i].t \notin {"arr", "null"}
    THEN [v |-> <<>>, err |-> "json type"]
    ELSE [v |-> [i \in 1..Len(body.items) |-> body.items[i].a], err |-> ""]

\* into PriceTicker: v is the Price field
UnmarshalTicker(body) ==
    IF body.t = "bad" THEN [v |-> <<>>, err |-> "json syntax"]
    ELSE IF body.t = "null" THEN [v |-> <<>>, err |-> ""]
    ELSE IF body.t /= "obj" THEN [v |-> <<>>, err |-> "json type"]
    ELSE IF body.price.t = "str" THEN [v |-> body.price.s, err |-> ""]
    ELSE IF body.price.t \in {"null", "absent"} THEN [v |-> <<>>, err |-> ""]
    ELSE [v |-> <<>>, err |-> "json type"]

\* into ExchangeInfo: v is the decoded object, passed through
UnmarshalExchangeInfo(body) ==
    IF body.t = "bad" THEN [v |-> NullBody, err |-> "json syntax"]
    ELSE IF body.t \in {"null", "obj"} THEN [v |-> body, err |-> ""]
    ELSE [v |-> NullBody, err |-> "json type"]

----------------------------------------------------------------------------
(* The bodies the exchange (or a mock endpoint) serves                     *)

Digit(n) == CHOOSE c \in Digits : DigitVal(c) = n

\* the wire array of the j-th candle: element i holds 100j+i as a number or
\* "j.0i" as a numeric string, so every position has its own value
GoodArr(j) ==
    [n \in 1..MinKlineLen |->
        LET i == n - 1
        IN  IF i \in NumberIdx THEN JNum(Fin(100 * j + i, 0))
            ELSE JStr(<<Digit(j), ".", Digit(i \div 10), Digit(i % 10)>>)]

\* the same with elements past index 10
LongArr(j) == GoodArr(j) \o <<JStr(<<"z">>), JNull>>

\* one element short
ShortArr(j) == SubSeq(GoodArr(j), 1, MinKlineLen - 1)

\* elements that follow the contract or are too short to be decoded
PlainElems(j) == {Arr(GoodArr(j)), Arr(ShortArr(j))}

\* ways an element varies from the plain ones: the value v at index i of
\* the wire array
FieldDefect(i, v) == [k |-> "field", i |-> i, v |-> v]

\* or the long array, or in place of the wire array [], [null, null], null
\* or a number
ElemDefect(k) == [k |-> k, i |-> 0, v |-> JNull]

Defects ==
    {FieldDefect(i, JStr(<<"a", "b", "c">>)) : i \in StringIdx}
    \cup {FieldDefect(i, JStr(<<"9">>)) : i \in NumberIdx}
    \cup { FieldDefect(1, JStr(<<>>)),
           FieldDefect(5, JStr(<<"1", "e", "9", "9", "9">>)),
           FieldDefect(10, JNum(Fin(7, 0))),
           FieldDefect(2, JNull),
           FieldDefect(0, JNull),
           FieldDefect(0, JNum(Fin(25, -1))),
           FieldDefect(8, JNum(Fin(-25, -1))) }
    \cup {ElemDefect(k) : k \in {"long", "empty", "nulls", "null", "num"}}

\* the j-th element varied by d
Defective(j, d) ==
    CASE d.k = "field" -> Arr([GoodArr(j) EXCEPT ![d.i + 1] = d.v])
      [] d.k = "long" -> Arr(LongArr(j))
      [] d.k = "empty" -> Arr(<<>>)
      [] d.k = "nulls" -> Arr(<<JNull, JNull>>)
      [] d.k = "null" -> NullElem
      [] d.k = "num" -> NumElem

\* the batches of n plain elements
RECURSIVE PlainBatches(_)
PlainBatches(n) ==
    IF n = 0 THEN {<<>>}
    ELSE {Append(b, el) : b \in PlainBatches(n - 1), el \in PlainElems(n)}

\* the batches of n elements of which at most MaxBad, and at least one,
\* vary, all in the same way
DefectiveBatches(n) ==
    {[j \in 1..n |-> IF j \in hit THEN Defective(j, d) ELSE b[j]] :
        b \in PlainBatches(n),
        d \in Defects,
        hit \in {h \in SUBSET (1..n) : h /= {} /\ Cardinality(h) <= MaxBad}}

KlineBatches ==
    UNION {PlainBatches(n) \cup DefectiveBatches(n) : n \in 0..MaxBatch}

KlineBodies == {ArrBody(items) : items \in KlineBatches}
                   \cup {BadBody, NullBody, ObjBody(JAbsent)}

PriceStrings ==
    { <<"6", "7", "1", "2", "3", ".", "5", "0">>,
      <<"-", "1", ".", "5">>,
      <<"1", "e", "3">>,
      <<"1", "e", "9", "9", "9">>,
      <<"1", "e">>,
      <<"a", "b", "c">>,
      <<"1", ".", "5", "x">>,
      <<>> }

TickerBodies ==
    {ObjBody(JStr(str)) : str \in PriceStrings}
    \cup {ObjBody(JNum(Fin(5, 0))), ObjBody(JNull), ObjBody(JAbsent),
          BadBody, NullBody, ArrBody(<<>>)}

ExchangeInfoBodies ==
    {ObjBody(JAbsent), ObjBody(JStr(<<"x">>)), BadBody, NullBody, ArrBody(<<>>)}

Endpoints ==
    {[op |-> "GetKlines", body |-> b] : b \in KlineBodies}
    \cup {[op |-> "GetCurrentPrice", body |-> b] : b \in TickerBodies}
    \cup {[op |-> "GetExchangeInfo", body |-> b] : b \in ExchangeInfoBodies}

Statuses == {200, 500}

----------------------------------------------------------------------------
(* The calls *)

\* variant: klines := []Kline{}
EmptySlice == [nil |-> FALSE, elems |-> <<>>]

\* a []Kline: the nil slice, or an allocated one
NilSlice == [nil |-> TRUE, elems |-> <<>>]

\* variant: the new kline goes to the front
prepend(slice, x) == [nil |-> FALSE, elems |-> <<x>> \o slice.elems]

append(slice, x) == [nil |-> FALSE, elems |-> Append(slice.elems, x)]

\* what a call hands back: kind is "ok", "err" or "panic"
NoRet ==
    [kind |-> "none", err |-> "", klines |-> NilSlice, price |-> Zero,
     info |-> NullBody, hasInfo |-> FALSE]

RetErr(e) == [NoRet EXCEPT !.kind = "err", !.err = e]

RetPanic == [NoRet EXCEPT !.kind = "panic"]

RetKlines(ks) == [NoRet EXCEPT !.kind = "ok", !.klines = ks]

RetPrice(f) == [NoRet EXCEPT !.kind = "ok", !.price = f]

RetInfo(v) == [NoRet EXCEPT !.kind = "ok", !.info = v, !.hasInfo = TRUE]

\* the caller has made no call yet
NoPrevious ==
    [seen |-> FALSE, ret |-> NoRet, status |-> 0, bodyRead |-> "none",
     closes |-> 0]

\* the first client, constructed under the empty setting
FirstClient == [Timeout |-> Timeout, Transport |-> NewTransport(<<>>)]

\* the package after initialization, with the clients cs constructed and
\* an exchange that serves one of eps
InitWith(cs, eps) ==
    /\ globalProxyURL = <<>>
    /\ clients = cs
    /\ logged = NoLog
    /\ endpoint \in eps
    /\ pc = "idle"
    /\ status = 0
    /\ bodyRead = "none"
    /\ deferred = 0
    /\ closes = 0
    /\ klineResponses = <<>>
    /\ idx = 0
    /\ klines = NilSlice
    /\ ticker = <<>>
    /\ ret = NoRet
    /\ previous = NoPrevious

Init == InitWith(<<>>, Endpoints)

\* variant: Close is called before each return statement instead of being
\* deferred, so a panic leaves without it
ReturnWithoutDefer(r) ==
    /\ pc' = "done"
    /\ ret' = r
    /\ closes' = IF r.kind = "panic" THEN closes ELSE closes + deferred
    /\ deferred' = 0

\* a return statement or a panic leaving the function: the deferred
\* resp.Body.Close() calls run, then the caller has r
Return(r) ==
    /\ pc' = "done"
    /\ ret' = r
    /\ closes' = closes + deferred
    /\ deferred' = 0

\* c.client.Get / c.client.Do returns an error: no response, nothing deferred
DoFails ==
    /\ pc = "idle"
    /\ clients /= <<>>
    /\ Return(RetErr("transport"))
    /\ UNCHANGED <<proxyVars, endpoint, status, bodyRead, klineResponses,
                   idx, klines, ticker, previous>>

\* it returns a response with status st; defer resp.Body.Close()
DoResponds(st) ==
    /\ pc = "idle"
    /\ clients /= <<>>
    /\ status' = st
    /\ deferred' = deferred + 1
    /\ pc' = "read"
    /\ UNCHANGED <<proxyVars, endpoint, bodyRead, closes, klineResponses,
                   idx, klines, ticker, ret, previous>>

\* variant: a status outside 2xx is turned into an error
ReadAllOKCheckingStatus ==
    /\ pc = "read"
    /\ bodyRead' = "eof"
    /\ IF status \in 200..299
       THEN /\ pc' = "decode"
            /\ UNCHANGED <<ret, closes, deferred>>
       ELSE /\ pc' = "done"
            /\ ret' = RetErr("status")
            /\ closes' = closes + deferred
            /\ deferred' = 0
    /\ UNCHANGED <<proxyVars, endpoint, status, klineResponses, idx, klines,
                   ticker, previous>>

\* io.ReadAll(resp.Body) reaches the end of the body
ReadAllOK ==
    /\ pc = "read"
    /\ bodyRead' = "eof"
    /\ pc' = "decode"
    /\ UNCHANGED <<proxyVars, endpoint, status, deferred, closes,
                   klineResponses, idx, klines, ticker, ret, previous>>

\* io.ReadAll fails part-way
ReadAllFails ==
    /\ pc = "read"
    /\ bodyRead' = "partial"
    /\ Return(RetErr("read"))
    /\ UNCHANGED <<proxyVars, endpoint, status, klineResponses, idx, klines,
                   ticker, previous>>

\* GetExchangeInfo from json.Unmarshal to its return
DecodeExchangeInfo ==
    /\ pc = "decode"
    /\ endpoint.op = "GetExchangeInfo"
    /\ LET d == UnmarshalExchangeInfo(endpoint.body)
       IN  Return(IF d.err /= "" THEN RetErr(d.err) ELSE RetInfo(d.v))
    /\ UNCHANGED <<proxyVars, endpoint, status, bodyRead, klineResponses,
                   idx, klines, ticker, previous>>

\* GetKlines: json.Unmarshal, then var klines []Kline and the loop begins
DecodeKlines ==
    /\ pc = "decode"
    /\ endpoint.op = "GetKlines"
    /\ LET d == UnmarshalKlines(endpoint.body)
       IN  IF d.err /= ""
           THEN /\ Return(RetErr(d.err))
                /\ UNCHANGED <<klineResponses, idx, klines>>
           ELSE /\ klineResponses' = d.v
                /\ idx' = 1
                /\ klines' = NilSlice
                /\ pc' = "loop"
                /\ UNCHANGED <<ret, closes, deferred>>
    /\ UNCHANGED <<proxyVars, endpoint, status, bodyRead, ticker, previous>>

\* one iteration of the range loop
ParseNext ==
    /\ pc = "loop"
    /\ idx <= Len(klineResponses)
    /\ LET r == parseKline(klineResponses[idx])
       IN  IF r.panic
           THEN /\ Return(RetPanic)
                /\ UNCHANGED <<idx, klines>>
           ELSE /\ idx' = idx + 1
                /\ klines' = IF r.err /= "" THEN klines
                             ELSE append(klines, r.kline)
                /\ UNCHANGED <<pc, ret, closes, deferred>>
    /\ UNCHANGED <<proxyVars, endpoint, status, bodyRead, klineResponses,
                   ticker, previous>>

\* return klines, nil
ReturnKlines ==
    /\ pc = "loop"
    /\ idx > Len(klineResponses)
    /\ Return(RetKlines(klines))
    /\ UNCHANGED <<proxyVars, endpoint, status, bodyRead, klineResponses,
                   idx, klines, ticker, previous>>

\* GetCurrentPrice: json.Unmarshal into ticker
DecodeTicker ==
    /\ pc = "decode"
    /\ endpoint.op = "GetCurrentPrice"
    /\ LET d == UnmarshalTicker(endpoint.body)
       IN  IF d.err /= ""
           THEN /\ Return(RetErr(d.err))
                /\ UNCHANGED ticker
           ELSE /\ ticker' = d.v
                /\ pc' = "price"
                /\ UNCHANGED <<ret, closes, deferred>>
    /\ UNCHANGED <<proxyVars, endpoint, status, bodyRead, klineResponses,
                   idx, klines, previous>>

\* variant: return price, err
ParsePriceKeepingValue ==
    /\ pc = "price"
    /\ LET p == ParseFloat(ticker)
       IN  /\ pc' = "done"
           /\ ret' = IF p.err /= "" THEN [RetErr(p.err) EXCEPT !.price = p.f]
                      ELSE RetPrice(p.f)
           /\ closes' = closes + deferred
           /\ deferred' = 0
    /\ UNCHANGED <<proxyVars, endpoint, status, bodyRead, klineResponses,
                   idx, klines, ticker, previous>>

\* strconv.ParseFloat(ticker.Price, 64) and the return
ParsePrice ==
    /\ pc = "price"
    /\ LET p == ParseFloat(ticker)
       IN  Return(IF p.err /= "" THEN RetErr(p.err) ELSE RetPrice(p.f))
    /\ UNCHANGED <<proxyVars, endpoint, status, bodyRead, klineResponses,
                   idx, klines, ticker, previous>>

\* the caller takes the outcome and is ready for its next call
Observe ==
    /\ pc = "done"
    /\ previous' = [seen |-> TRUE, ret |-> ret, status |-> status,
                    bodyRead |-> bodyRead, closes |-> closes]
    /\ pc' = "idle"
    /\ status' = 0
    /\ bodyRead' = "none"
    /\ closes' = 0
    /\ klineResponses' = <<>>
    /\ idx' = 0
    /\ klines' = NilSlice
    /\ ticker' = <<>>
    /\ ret' = NoRet
    /\ UNCHANGED <<proxyVars, endpoint, deferred>>

NextProxy ==
    \/ \E proxyURL \in ProxyInputs : SetProxy(proxyURL)
    \/ NewAPIClient

NextCalls ==
    \/ DoFails
    \/ \E st \in Statuses : DoResponds(st)
    \/ ReadAllOK
    \/ ReadAllFails
    \/ DecodeExchangeInfo
    \/ DecodeKlines
    \/ ParseNext
    \/ ReturnKlines
    \/ DecodeTicker
    \/ ParsePrice
    \/ Observe

Next == NextProxy \/ NextCalls

Spec == Init /\ [][Next]_vars

\* the proxy setting and construction alone, against one fixed endpoint
InitProxy == InitWith(<<>>, {[op |-> "GetExchangeInfo", body |-> NullBody]})

\* the calls of the first client alone
InitCalls == InitWith(<<FirstClient>>, Endpoints)

SpecProxy == InitProxy /\ [][NextProxy]_vars

SpecCalls == InitCalls /\ [][NextCalls]_vars

----------------------------------------------------------------------------
(* Properties of the proxy setting and construction (SpecProxy)            *)

LastClient == clients[Len(clients)]

Constructed == Len(clients') = Len(clients) + 1

RoutingOf(v) ==
    IF v = <<>> THEN NoProxy
    ELSE IF v = <<"h", "t", "t", "p", ":", "/", "/", "p", ":", "8">>
    THEN ProxyURL([Scheme |-> <<"h", "t", "t", "p">>, Opaque |-> <<>>,
                   Host |-> <<"p", ":", "8">>, Path |-> <<>>])
    ELSE IF v = <<"h", "t", "t", "p", ":", "/", "/", "q", ":", "9">>
    THEN ProxyURL([Scheme |-> <<"h", "t", "t", "p">>, Opaque |-> <<>>,
                   Host |-> <<"q", ":", "9">>, Path |-> <<>>])
    ELSE IF v = <<"p", ":", "8">>
    THEN ProxyURL([Scheme |-> <<"p">>, Opaque |-> <<"8">>,
                   Host |-> <<>>, Path |-> <<>>])
    ELSE IF v = <<"p">>
    THEN ProxyURL([Scheme |-> <<>>, Opaque |-> <<>>,
                   Host |-> <<>>, Path |-> <<"p">>])
    ELSE NoProxy

\* C5: a client's proxy routing is the one the setting stands for at the
\* step that constructs it, and no later step (SetProxy or a further
\* construction) changes an already constructed client.
C5_ProxyFixedAtConstruction ==
    [][/\ \A i \in 1..Len(clients) :
            i <= Len(clients') /\ clients'[i] = clients[i]
       /\ Constructed =>
            clients'[Len(clients')].Transport.Proxy = RoutingOf(globalProxyURL)]_vars

C5_Witness ==
    /\ Len(clients) = 2
    /\ clients[1].Transport.Proxy = RoutingOf(<<"h", "t", "t", "p", ":", "/", "/", "p", ":", "8">>)
    /\ clients[2].Transport.Proxy = NoProxy
    /\ globalProxyURL = <<"h", "t", "t", "p", ":", "/", "/", "q", ":", "9">>
    /\ logged.line = "proxy set"

----------------------------------------------------------------------------
(* Properties of the calls (SpecCalls)                                     *)

Items == endpoint.body.items

\* the values the j-th candle encodes: Value(j, i) is what GoodArr(j) holds
\* at index i, an integer at the number indexes and a float64 elsewhere
Value(j, i) == IF i \in NumberIdx THEN 100 * j + i ELSE Fin(100 * j + i, -2)

ExpectedKline(j) ==
    [OpenTime |-> Value(j, 0), Open |-> Value(j, 1), High |-> Value(j, 2),
     Low |-> Value(j, 3), Close |-> Value(j, 4), Volume |-> Value(j, 5),
     CloseTime |-> Value(j, 6), QuoteVolume |-> Value(j, 7),
     Trades |-> Value(j, 8), TakerBuyBaseVolume |-> Value(j, 9),
     TakerBuyQuoteVolume |-> Value(j, 10)]

FieldOf(k, i) ==
    CASE i = 0 -> k.OpenTime [] i = 1 -> k.Open [] i = 2 -> k.High
      [] i = 3 -> k.Low [] i = 4 -> k.Close [] i = 5 -> k.Volume
      [] i = 6 -> k.CloseTime [] i = 7 -> k.QuoteVolume [] i = 8 -> k.Trades
      [] i = 9 -> k.TakerBuyBaseVolume [] i = 10 -> k.TakerBuyQuoteVolume

\* the elements 0..10 have the types of the wire contract
TypeShapeOK(a) ==
    /\ \A i \in NumberIdx : a[i + 1].t = "num"
    /\ \A i \in StringIdx : a[i + 1].t = "str"

IsLong(a) == Len(a) >= 11

\* the j-th element is the encoding of the j-th candle, possibly followed by
\* further elements
IsGood(j, a) == IsLong(a) /\ SubSeq(a, 1, 11) = GoodArr(j)

\* GetKlines has returned or panicked after the outer array, made of wire
\* arrays only, was read and decoded
KlinesDone ==
    /\ pc = "done"
    /\ endpoint.op = "GetKlines"
    /\ bodyRead = "eof"
    /\ endpoint.body.t = "arr"
    /\ \A j \in 1..Len(Items) : Items[j].t = "arr"

\* the indexes of the arrays of length >= 11 among the first n, ascending
RECURSIVE LongIdx(_)
LongIdx(n) ==
    IF n = 0 THEN <<>>
    ELSE IF IsLong(Items[n].a) THEN Append(LongIdx(n - 1), n)
    ELSE LongIdx(n - 1)

\* the same, leaving out the arrays whose type shape is wrong
RECURSIVE DecodableIdx(_)
DecodableIdx(n) ==
    IF n = 0 THEN <<>>
    ELSE IF IsLong(Items[n].a) /\ TypeShapeOK(Items[n].a)
         THEN Append(DecodableIdx(n - 1), n)
    ELSE DecodableIdx(n - 1)

\* C1: an element whose type shape does not match the wire contract is
\* skipped: GetKlines returns normally, without error, the klines of the
\* other elements of length >= 11, in order.
C1_MismatchedRecordSkipped ==
    KlinesDone =>
        /\ ret.kind = "ok"
        /\ LET keep == DecodableIdx(Len(Items))
           IN  ret.klines.elems =
                   [k \in 1..Len(keep) |-> parseKline(Items[keep[k]].a).kline]

\* C2: when every array is either shorter than 11 or well-formed, the
\* result is, without error, exactly the klines of the arrays of length
\* >= 11 in response order; one short array among N leaves N-1 klines.
C2_ShortArraysSkippedInOrder ==
    (KlinesDone /\ \A j \in 1..Len(Items) :
                      ~IsLong(Items[j].a) \/ IsGood(j, Items[j].a)) =>
        /\ ret.kind = "ok"
        /\ ret.err = ""
        /\ LET keep == LongIdx(Len(Items))
           IN  ret.klines.elems = [k \in 1..Len(keep) |-> ExpectedKline(keep[k])]

C2_Witness ==
    /\ KlinesDone
    /\ Len(Items) = 3
    /\ IsGood(1, Items[1].a)
    /\ Len(Items[2].a) = 10
    /\ IsGood(3, Items[3].a)
    /\ ret.kind = "ok"
    /\ ret.klines.elems = <<ExpectedKline(1), ExpectedKline(3)>>

\* C3 as claimed: for the body [] GetKlines returns no error and an empty
\* sequence that is allocated (not nil).
C3_EmptyArrayGivesAllocatedEmpty ==
    (KlinesDone /\ Items = <<>>) =>
        /\ ret.kind = "ok"
        /\ ret.klines.elems = <<>>
        /\ ~ret.klines.nil

\* C3 as amended: for the body [] GetKlines returns no error and a sequence
\* of length zero, which is the nil slice.
C3_EmptyArrayGivesNilEmpty ==
    (KlinesDone /\ Items = <<>>) =>
        /\ ret.kind = "ok"
        /\ ret.err = ""
        /\ Len(ret.klines.elems) = 0
        /\ ret.klines.nil

C3_Witness ==
    /\ KlinesDone
    /\ Items = <<>>
    /\ status = 200
    /\ ret = RetKlines(NilSlice)

\* text that is not a number: empty, or holding a letter that is not an
\* exponent mark
NonNumericText(str) ==
    \/ str = <<>>
    \/ \E n \in 1..Len(str) : str[n] \in Letters \ {"e"}

\* the number of arrays of length >= 11 among the first j
Rank(j) == Len(LongIdx(j))

\* C6: when the arrays of length >= 11 have the documented types, non-numeric
\* text in a numeric-string field raises no error and drops no record: the
\* record's kline is in the result, its field for that index is zero and
\* its other fields hold the values of their own indexes.
C6_NonNumericFieldIsZero ==
    (KlinesDone /\ \A j \in 1..Len(Items) :
                      IsLong(Items[j].a) => TypeShapeOK(Items[j].a)) =>
        /\ ret.kind = "ok"
        /\ Len(ret.klines.elems) = Rank(Len(Items))
        /\ \A j \in 1..Len(Items) : IsLong(Items[j].a) =>
              \A i \in 0..10 :
                 LET a == Items[j].a
                     k == ret.klines.elems[Rank(j)]
                 IN  IF i \in StringIdx /\ NonNumericText(a[i + 1].s)
                     THEN FieldOf(k, i) = Zero
                     ELSE a[i + 1] = GoodArr(j)[i + 1] =>
                              FieldOf(k, i) = Value(j, i)

C6_Witness ==
    /\ KlinesDone
    /\ Len(Items) = 2
    /\ Items[2] = Defective(2, FieldDefect(7, JStr(<<"a", "b", "c">>)))
    /\ ret.kind = "ok"
    /\ Len(ret.klines.elems) = 2
    /\ ret.klines.elems[2] = [ExpectedKline(2) EXCEPT !.QuoteVolume = Zero]

\* C7: a well-formed array of length >= 11 decodes to the kline whose
\* fields are the values at indexes 0..10, whatever follows index 10.
C7_PositionalDecoding ==
    (/\ pc = "loop"
     /\ idx > 1
     /\ IsGood(idx - 1, klineResponses[idx - 1])) =>
        /\ klines.elems /= <<>>
        /\ klines.elems[Len(klines.elems)] = ExpectedKline(idx - 1)

C7_Witness ==
    /\ pc = "loop"
    /\ idx = 3
    /\ Len(klineResponses[1]) = 11
    /\ Len(klineResponses[2]) = 13
    /\ klines.elems = <<ExpectedKline(1), ExpectedKline(2)>>

\* the price strings of the bodies that are numbers a float64 can hold, with
\* their values
ExpectedPrice(str) ==
    CASE str = <<"6", "7", "1", "2", "3", ".", "5", "0">> -> Fin(671235, -1)
      [] str = <<"-", "1", ".", "5">> -> Fin(-15, -1)
      [] str = <<"1", "e", "3">> -> Fin(1000, 0)

IsNumber(str) ==
    str \in { <<"6", "7", "1", "2", "3", ".", "5", "0">>,
              <<"-", "1", ".", "5">>,
              <<"1", "e", "3">> }

\* C8: GetCurrentPrice returns an error and the price 0 when the transport
\* or the read fails, the body does not decode into a PriceTicker or the
\* price field (absent and empty included) is not a number; otherwise it
\* returns, without error, the numeric value of the price string.
C8_PriceOrWholeFailure ==
    (pc = "done" /\ endpoint.op = "GetCurrentPrice") =>
        IF /\ bodyRead = "eof"
           /\ endpoint.body.t = "obj"
           /\ endpoint.body.price.t = "str"
           /\ IsNumber(endpoint.body.price.s)
        THEN /\ ret.kind = "ok"
             /\ ret.err = ""
             /\ ret.price = ExpectedPrice(endpoint.body.price.s)
        ELSE /\ ret.kind = "err"
             /\ ret.err /= ""
             /\ ret.price = Zero

C8_Witness ==
    /\ pc = "done"
    /\ endpoint = [op |-> "GetCurrentPrice",
                   body |-> ObjBody(JStr(<<"6", "7", "1", "2", "3", ".", "5", "0">>))]
    /\ ret.kind = "ok"
    /\ ret.price = Fin(671235, -1)
    /\ previous.seen
    /\ previous.ret.kind = "err"

\* a finished call that had obtained a response released it once, and had
\* read it to its end unless reading itself failed
Released(st, rd, cl, r) ==
    IF st = 0 THEN cl = 0 /\ rd = "none"
    ELSE /\ cl = 1
         /\ r.err /= "read" => rd = "eof"

\* C9: once a response is obtained its body is closed exactly once, when the
\* call returns or panics and not before; decoding only starts after the
\* body was read to its end.
C9_BodyReleasedOnce ==
    /\ pc \in {"read", "decode", "loop", "price"} =>
          status /= 0 /\ closes = 0 /\ deferred = 1
    /\ pc \in {"decode", "loop", "price"} => bodyRead = "eof"
    /\ pc = "done" => deferred = 0 /\ Released(status, bodyRead, closes, ret)
    /\ Released(previous.status, previous.bodyRead, previous.closes,
                previous.ret)

C9_Witness ==
    /\ pc = "done"
    /\ ret.kind = "panic"
    /\ closes = 1
    /\ bodyRead = "eof"
    /\ previous.ret.err = "read"
    /\ previous.closes = 1

\* the body has the JSON shape the operation expects
ShapeMatches ==
    CASE endpoint.op = "GetExchangeInfo" -> endpoint.body.t = "obj"
      [] endpoint.op = "GetCurrentPrice" ->
            /\ endpoint.body.t = "obj"
            /\ endpoint.body.price.t = "str"
            /\ IsNumber(endpoint.body.price.s)
      [] endpoint.op = "GetKlines" ->
            /\ endpoint.body.t = "arr"
            /\ \A j \in 1..Len(Items) :
                  Items[j].t = "arr" /\ (IsLong(Items[j].a) => TypeShapeOK(Items[j].a))

\* C10: two calls that received the same body, read alike, have the same
\* outcome whatever their status codes; a non-2xx response whose body has
\* the expected shape gives a normal result, not an error.
C10_StatusIgnored ==
    pc = "done" =>
        /\ (/\ previous.status /= 0
            /\ status /= 0
            /\ previous.bodyRead = bodyRead) => ret = previous.ret
        /\ (/\ status \notin {0} \cup (200..299)
            /\ bodyRead = "eof"
            /\ ShapeMatches) => ret.kind = "ok"

C10_Witness ==
    /\ pc = "done"
    /\ previous.status = 200
    /\ status = 500
    /\ endpoint.op = "GetKlines"
    /\ ret.kind = "ok"
    /\ Len(ret.klines.elems) = 2
    /\ ret = previous.ret

====
